---------------------------- MODULE Spec2Model ----------------------------
(***************************************************************************)
(* Model of two parts of probe-rs:                                         *)
(*   - gdb-server/src/writer.rs : the RSP packet codec (encode) and the    *)
(*     ack/nack wait of writer;                                            *)
(*   - probe-rs/src/core/mod.rs : the hardware breakpoint algorithm of the *)
(*     Core facade (set / clear / clear_all) over a CoreInterface.         *)
(* Bytes are naturals 0..255.  Vec indices are 0-based as in the source;   *)
(* TLA+ sequences are 1-based, so s[i + 1] is the source's s[i].           *)
(***************************************************************************)
EXTENDS Naturals, Integers, Sequences, FiniteSets, TLC

VARIABLES
    packet,     \* the CheckedPacket handed to encode / writer
    w,          \* encode: the bytes written to the sink so far
    epc,        \* encode: "idle" | "start" | "done"
    buffer,     \* writer: the shared Vec<u8> (buffer: &mut Vec<u8>)
    wpc,        \* writer: "idle" | "send" | "ack" | "reader" | "error"
    sends,      \* writer: the frames written to the peer stream, in order
    lastN,      \* writer: n of the last stream.read (-1 before any read)
    hist,       \* history: buffer at writer entry followed by all bytes read
    consumed,   \* history: the 1-based positions of hist removed from buffer
    nacks,      \* history: number of '-' bytes removed in this call
    acks,       \* history: number of '+' bytes removed in this call
    failed,     \* history: the stream operation that failed ("none" | "write" | "flush" | "read")
    slots,      \* core: the comparator slots get_hw_breakpoints reports
    enabled,    \* core: hw_breakpoints_enabled()
    last,       \* core: record of the last facade call
    prior,      \* core: record of the facade call before the last one
    ctype,      \* dispatch: the declared CoreType of the core
    coreId,     \* dispatch: CoreState::id
    specific,   \* dispatch: the SpecificCoreState variant ("none" before it is built)
    attached    \* dispatch: record of the last attach_arm / attach_riscv call

vars == <<packet, w, epc, buffer, wpc, sends, lastN, hist, consumed, nacks,
          acks, failed, slots, enabled, last, prior, ctype, coreId, specific, attached>>

encodeVars == <<w, epc>>
writerVars == <<buffer, wpc, sends, lastN, hist, consumed, nacks, acks, failed>>
coreVars   == <<slots, enabled, last, prior>>
dispatchVars == <<ctype, coreId, specific, attached>>

\* Option<T>: None is the empty sequence, Some(x) the one-element sequence.
None == <<>>
Some(x) == <<x>>

-----------------------------------------------------------------------------
(* Bytes of the wire protocol.                                             *)

HASH    == 35     \* b'#'
DOLLAR  == 36     \* b'$'
PERCENT == 37     \* b'%'
STAR    == 42     \* b'*'
PLUS    == 43     \* b'+'
MINUS   == 45     \* b'-'
RBRACE  == 125    \* b'}'
ESCAPE_XOR == 32  \* 0x20

\* Bounds of the model.
MaxLen == 4       \* longest payload given to encode

\* Payload bytes: the four escapable bytes, a plain letter, and ']' which is
\* '}' ^ 0x20 (so that an escaped '}' and a raw ']' can be told apart).
PayloadBytes == {HASH, DOLLAR, RBRACE, STAR, 97, 93}

RECURSIVE SeqsUpTo(_, _)
SeqsUpTo(S, n) ==
    IF n = 0 THEN {<<>>}
    ELSE LET shorter == SeqsUpTo(S, n - 1)
         IN  shorter \cup {Append(s, b) : s \in shorter, b \in S}

Kinds == {"Packet", "Notification"}

\* The checksum trailer is two hex digits, computed elsewhere: "00", "7d".
Checksums == {<<48, 48>>, <<55, 100>>}

Packets == [kind : Kinds, data : SeqsUpTo(PayloadBytes, MaxLen), checksum : Checksums]

MinOf(a, b) == IF a <= b THEN a ELSE b

UnwrapOr(opt, dflt) == IF opt = None THEN dflt ELSE opt[1]

\* memchr::memchr(needle, haystack): 0-based index of the first match.
Memchr(n1, haystack) ==
    LET hits == {i \in 1..Len(haystack) : haystack[i] = n1}
    IN  IF hits = {} THEN None
        ELSE Some((CHOOSE i \in hits : \A j \in hits : i <= j) - 1)

\* memchr::memchr3(n1, n2, n3, haystack)
Memchr3(n1, n2, n3, haystack) ==
    LET hits == {i \in 1..Len(haystack) : haystack[i] \in {n1, n2, n3}}
    IN  IF hits = {} THEN None
        ELSE Some((CHOOSE i \in hits : \A j \in hits : i <= j) - 1)

\* b ^ 0x20 on a u8: flip bit 5.
\* Variant: the escaped byte is written without the XOR.
XorNone(b) == b
Xor20(b) == IF (b \div ESCAPE_XOR) % 2 = 1 THEN b - ESCAPE_XOR ELSE b + ESCAPE_XOR

\* The header byte of encode (lines 58-62).
\* Variant: the two header bytes exchanged.
MarkerSwapped(kind) == IF kind = "Notification" THEN DOLLAR ELSE PERCENT
Marker(kind) == IF kind = "Notification" THEN PERCENT ELSE DOLLAR

\* The escape position of one pass of the while loop (lines 66-72).
\* Variant: the second memchr looks for 'a' instead of '*'.
EscapePosWrongNeedle(remaining) ==
    MinOf(UnwrapOr(Memchr3(HASH, DOLLAR, RBRACE, remaining), Len(remaining)),
          UnwrapOr(Memchr(97, remaining), Len(remaining)))
EscapePos(remaining) ==
    MinOf(UnwrapOr(Memchr3(HASH, DOLLAR, RBRACE, remaining), Len(remaining)),
          UnwrapOr(Memchr(STAR, remaining), Len(remaining)))

\* The while loop of encode (lines 64-83): the bytes it writes for `remaining`.
\* Variant: only the first escapable byte is escaped, the rest is written raw.
EncodeDataFirstOnly(remaining) ==
    IF remaining = <<>> THEN <<>>
    ELSE LET escape == EscapePos(remaining)
             head   == SubSeq(remaining, 1, escape)
             rest   == SubSeq(remaining, escape + 1, Len(remaining))
         IN  IF rest # <<>>
             THEN head \o <<RBRACE, Xor20(rest[1])>> \o Tail(rest)
             ELSE head
RECURSIVE EncodeData(_)
EncodeData(remaining) ==
    IF remaining = <<>> THEN <<>>
    ELSE LET escape == EscapePos(remaining)
             head   == SubSeq(remaining, 1, escape)
             rest   == SubSeq(remaining, escape + 1, Len(remaining))
         IN  IF rest # <<>>
             THEN head \o <<RBRACE, Xor20(rest[1])>> \o EncodeData(Tail(rest))
             ELSE head

\* encode(packet, w): everything written to the sink on success.
Encode(p) == <<Marker(p.kind)>> \o EncodeData(p.data) \o <<HASH>> \o p.checksum

-----------------------------------------------------------------------------
(* Specification of the codec alone: a packet is chosen, encode runs.      *)

EncodeIdle == w = <<>> /\ epc = "idle"
WriterIdle ==
    /\ buffer = <<>> /\ wpc = "idle" /\ sends = <<>> /\ lastN = -1
    /\ hist = <<>> /\ consumed = {} /\ nacks = 0 /\ acks = 0 /\ failed = "none"
DispatchIdle ==
    /\ ctype = "none" /\ coreId = 0 /\ specific = "none"
    /\ attached = [path |-> "none"]
CoreIdle ==
    /\ slots = <<>> /\ enabled = FALSE /\ last = [op |-> "idle"]
    /\ prior = [op |-> "idle"]
    /\ DispatchIdle

InitEncode ==
    /\ packet \in Packets
    /\ w = <<>>
    /\ epc = "start"
    /\ WriterIdle
    /\ CoreIdle

EncodeCall ==
    /\ epc = "start"
    /\ w' = w \o Encode(packet)
    /\ epc' = "done"
    /\ UNCHANGED <<packet, writerVars, coreVars, dispatchVars>>

NextEncode == EncodeCall

SpecEncode == InitEncode /\ [][NextEncode]_vars

-----------------------------------------------------------------------------
(* writer: send the frame, then wait for the peer's ack.                   *)

TMP_BUF_LEN == 128   \* let mut tmp_buf = [0; 128]

MaxEntry == 2        \* longest buffer content at writer entry
MaxChunk == 2        \* longest chunk one stream.read delivers
MaxRecv  == 4        \* most bytes the peer delivers in one writer call

\* Bytes the peer may deliver: ack, nack, and '$' (the start of its next frame).
StreamBytes == {PLUS, MINUS, DOLLAR}

\* Packets handed to writer: a plain reply, a reply with an escaped byte, and
\* an empty notification.
WriterPackets ==
    { [kind |-> "Packet", data |-> <<97>>, checksum |-> <<48, 48>>],
      [kind |-> "Packet", data |-> <<HASH>>, checksum |-> <<55, 100>>],
      [kind |-> "Notification", data |-> <<>>, checksum |-> <<48, 48>>] }

\* Vec::remove(i), i 0-based: delete the element at i, shifting the rest left.
\* Variant: the byte after the matched one is deleted (shift during iteration).
RemoveAtNext(buf, i) ==
    IF i + 2 <= Len(buf)
    THEN SubSeq(buf, 1, i + 1) \o SubSeq(buf, i + 3, Len(buf))
    ELSE SubSeq(buf, 1, i)
RemoveAt(buf, i) == SubSeq(buf, 1, i) \o SubSeq(buf, i + 2, Len(buf))

\* The match of one scanned byte (lines 32-46): what the scan does on it.
\* Variant: the '+' and '-' arms exchanged.
MatchByteSwapped(byte) ==
    IF byte = MINUS THEN "break" ELSE IF byte = PLUS THEN "continue" ELSE "next"
MatchByte(byte) ==
    IF byte = PLUS THEN "break" ELSE IF byte = MINUS THEN "continue" ELSE "next"

\* for (i, byte) in buffer.iter().enumerate() { match byte ... } from index i
\* (lines 31-47).  exit is "break" ('+': leave 'ack), "continue" ('-': back to
\* the top of 'ack) or "fallthrough" (the for loop ran out: the top of 'ack).
\* Variant: only the first unconsumed byte of the buffer is looked at.
ScanHeadOnly(buf, i) ==
    IF i >= Len(buf) \/ MatchByte(buf[i + 1]) = "next"
    THEN [buffer |-> buf, exit |-> "fallthrough", removed |-> None]
    ELSE [buffer |-> RemoveAt(buf, i), exit |-> MatchByte(buf[i + 1]),
          removed |-> Some(i)]
RECURSIVE ScanFrom(_, _)
ScanFrom(buf, i) ==
    IF i >= Len(buf)
    THEN [buffer |-> buf, exit |-> "fallthrough", removed |-> None]
    ELSE LET m == MatchByte(buf[i + 1])
         IN  IF m = "next"
             THEN ScanFrom(buf, i + 1)
             ELSE [buffer |-> RemoveAt(buf, i), exit |-> m, removed |-> Some(i)]

\* Where control goes after the scan: only `break 'ack` leaves the loop, and
\* the loop body starts at stream.read (line 23), after encode and flush.
AfterScan(exit) == IF exit = "break" THEN "reader" ELSE "ack"

\* History: the position of hist that is the k-th byte (1-based) of a buffer
\* holding the bytes of h not in c.
LivePos(h, c, k) ==
    CHOOSE j \in 1..Len(h) :
        /\ j \notin c
        /\ Cardinality({x \in 1..j : x \notin c}) = k

Count(S, b) == Cardinality({i \in DOMAIN S : S[i] = b})

InitWriter ==
    /\ packet \in WriterPackets
    /\ buffer \in SeqsUpTo(StreamBytes, MaxEntry)
    /\ wpc = "send"
    /\ sends = <<>>
    /\ lastN = -1
    /\ hist = buffer
    /\ consumed = {}
    /\ nacks = 0
    /\ acks = 0
    /\ failed = "none"
    /\ EncodeIdle
    /\ CoreIdle

\* encode(&packet, stream).await?; stream.flush().await?;  (lines 17-18)
WriterSend ==
    /\ wpc = "send"
    /\ sends' = Append(sends, Encode(packet))
    /\ wpc' = "ack"
    /\ UNCHANGED <<packet, buffer, lastN, hist, consumed, nacks, acks, failed,
                   encodeVars, coreVars, dispatchVars>>

\* `?` on an Err: the function returns the error (lines 17, 18, 23).
\* Variant: the error is dropped and the operation is tried again.
OnIoErrorRetry(pc) == pc
OnIoError(pc) == "error"

\* A write of encode fails (line 17), or encode succeeds and the flush fails
\* (line 18): `?` returns the error.
WriterSendFail(stage) ==
    /\ wpc = "send"
    /\ wpc' = OnIoError(wpc)
    /\ failed' = stage
    /\ sends' = IF stage = "flush" THEN Append(sends, Encode(packet)) ELSE sends
    /\ UNCHANGED <<packet, buffer, lastN, hist, consumed, nacks, acks,
                   encodeVars, coreVars, dispatchVars>>

\* One pass of 'ack (lines 22-48): stream.read delivers `chunk` (n = 0 when it
\* is empty), the buffer is extended, and the buffer is scanned.
WriterRead(chunk) ==
    /\ wpc = "ack"
    /\ Len(chunk) <= TMP_BUF_LEN
    /\ Len(hist) + Len(chunk) <= MaxEntry + MaxRecv
    /\ LET n    == Len(chunk)
           buf1 == IF n > 0 THEN buffer \o chunk ELSE buffer
           scan == ScanFrom(buf1, 0)
           h1   == hist \o chunk
           pos  == IF scan.removed = None THEN 0
                   ELSE LivePos(h1, consumed, scan.removed[1] + 1)
       IN  /\ lastN' = n
           /\ buffer' = scan.buffer
           /\ wpc' = AfterScan(scan.exit)
           /\ hist' = h1
           /\ consumed' = IF pos = 0 THEN consumed ELSE consumed \cup {pos}
           /\ nacks' = IF pos # 0 /\ h1[pos] = MINUS THEN nacks + 1 ELSE nacks
           /\ acks'  = IF pos # 0 /\ h1[pos] = PLUS THEN acks + 1 ELSE acks
    /\ UNCHANGED <<packet, sends, failed, encodeVars, coreVars, dispatchVars>>

\* stream.read fails: `?` returns the error (line 23).
WriterReadFail ==
    /\ wpc = "ack"
    /\ wpc' = OnIoError(wpc)
    /\ failed' = "read"
    /\ UNCHANGED <<packet, buffer, sends, lastN, hist, consumed, nacks, acks,
                   encodeVars, coreVars, dispatchVars>>

NextWriter ==
    \/ WriterSend
    \/ \E stage \in {"write", "flush"} : WriterSendFail(stage)
    \/ \E chunk \in SeqsUpTo(StreamBytes, MaxChunk) : WriterRead(chunk)
    \/ WriterReadFail

SpecWriter == InitWriter /\ [][NextWriter]_vars

-----------------------------------------------------------------------------
(* Core: the hardware breakpoint algorithm over a CoreInterface back-end.  *)
(* hw is the back-end during one facade call:                              *)
(*   slots, enabled : the comparator slots and the breakpoint-unit flag;   *)
(*   log            : the fallible back-end calls issued so far;           *)
(*   fault          : the ordinal of the back-end call that fails (0 when  *)
(*                    none does).                                          *)
(* slots is a function on 0..NumUnits-1, as Vec<Option<u32>>.              *)

NumUnits == 3        \* get_available_breakpoint_units()

\* Addresses: one more than there are comparators.
Addrs == 1..(NumUnits + 1)

UnitIdx == 0..(NumUnits - 1)

OptAddrs == {None} \cup {Some(a) : a \in Addrs}

\* Whether the next fallible back-end call is the one that fails.
Fails(hw) == Len(hw.log) + 1 = hw.fault

Logged(hw, call) == [hw EXCEPT !.log = Append(@, call)]

\* CoreInterface::enable_breakpoints(state)
BackendEnable(hw, state) ==
    IF Fails(hw) THEN Logged(hw, <<"enable_breakpoints", state, FALSE>>)
    ELSE [Logged(hw, <<"enable_breakpoints", state, TRUE>>) EXCEPT !.enabled = state]

\* CoreInterface::get_hw_breakpoints(): reads the slots, changes nothing.
BackendGet(hw) ==
    IF Fails(hw) THEN Logged(hw, <<"get_hw_breakpoints", 0, FALSE>>)
    ELSE Logged(hw, <<"get_hw_breakpoints", 0, TRUE>>)

\* CoreInterface::set_hw_breakpoint(bp_unit_index, addr)
BackendSet(hw, idx, addr) ==
    IF Fails(hw) THEN Logged(hw, <<"set_hw_breakpoint", <<idx, addr>>, FALSE>>)
    ELSE [Logged(hw, <<"set_hw_breakpoint", <<idx, addr>>, TRUE>>)
             EXCEPT !.slots[idx] = Some(addr)]

\* CoreInterface::clear_hw_breakpoint(unit_index)
BackendClear(hw, idx) ==
    IF Fails(hw) THEN Logged(hw, <<"clear_hw_breakpoint", idx, FALSE>>)
    ELSE [Logged(hw, <<"clear_hw_breakpoint", idx, TRUE>>)
             EXCEPT !.slots[idx] = None]

\* Whether the last back-end call logged in hw returned Ok.
LastOk(hw) == hw.log[Len(hw.log)][3]

\* Iterator::position(pred) over the slot vector: Some(lowest index) or None.
\* Variant: the highest index holding addr is returned.
PositionLast(sl, addr) ==
    LET hits == {i \in DOMAIN sl : sl[i] = Some(addr)}
    IN  IF hits = {} THEN None
        ELSE Some(CHOOSE i \in hits : \A j \in hits : j <= i)
Position(sl, addr) ==
    LET hits == {i \in DOMAIN sl : sl[i] = Some(addr)}
    IN  IF hits = {} THEN None
        ELSE Some(CHOOSE i \in hits : \A j \in hits : i <= j)

\* The for loop of find_free_breakpoint_comparator_index (lines 420-427).
\* Variant: slot 0 is handed out when no slot is free.
FirstFreeOrZero(sl) ==
    LET free == {i \in DOMAIN sl : sl[i] = None}
    IN  IF free = {} THEN Some(0)
        ELSE Some(CHOOSE i \in free : \A j \in free : i <= j)
\* Variant: the highest free slot is handed out.
FirstFreeHighest(sl) ==
    LET free == {i \in DOMAIN sl : sl[i] = None}
    IN  IF free = {} THEN None
        ELSE Some(CHOOSE i \in free : \A j \in free : j <= i)
FirstFree(sl) ==
    LET free == {i \in DOMAIN sl : sl[i] = None}
    IN  IF free = {} THEN None
        ELSE Some(CHOOSE i \in free : \A j \in free : i <= j)

\* Core::find_free_breakpoint_comparator_index (lines 419-431).
FindFreeBreakpointComparatorIndex(hw) ==
    LET h1 == BackendGet(hw)
    IN  IF ~LastOk(h1) THEN [res |-> "HwError", idx |-> None, hw |-> h1]
        ELSE IF FirstFree(h1.slots) = None
             THEN [res |-> "NoAvailable", idx |-> None, hw |-> h1]
             ELSE [res |-> "Ok", idx |-> FirstFree(h1.slots), hw |-> h1]

\* The slot index set_hw_breakpoint resolves (lines 444-452), given the
\* back-end after the (successful) get_hw_breakpoints of line 446.
\* Variant: the slot already holding address is not looked for.
ResolveAlwaysFree(h2, address) == FindFreeBreakpointComparatorIndex(h2)
ResolveIndex(h2, address) ==
    IF Position(h2.slots, address) # None
    THEN [res |-> "Ok", idx |-> Position(h2.slots, address), hw |-> h2]
    ELSE FindFreeBreakpointComparatorIndex(h2)

\* Core::set_hw_breakpoint(address) (lines 438-464).
\* Variant: the unit is enabled only once a slot index is resolved.
CoreSetEnableLate(hw, address) ==
    LET h2 == BackendGet(hw)
    IN  IF ~LastOk(h2) THEN [res |-> "HwError", hw |-> h2]
        ELSE LET r == ResolveIndex(h2, address)
             IN  IF r.res # "Ok" THEN [res |-> r.res, hw |-> r.hw]
                 ELSE LET h1 == IF ~hw.enabled THEN BackendEnable(r.hw, TRUE) ELSE r.hw
                      IN  IF ~hw.enabled /\ ~LastOk(h1) THEN [res |-> "HwError", hw |-> h1]
                          ELSE LET h3 == BackendSet(h1, r.idx[1], address)
                               IN  IF ~LastOk(h3) THEN [res |-> "HwError", hw |-> h3]
                                   ELSE [res |-> "Ok", hw |-> h3]
CoreSetHwBreakpoint(hw, address) ==
    LET h1 == IF ~hw.enabled THEN BackendEnable(hw, TRUE) ELSE hw
    IN  IF ~hw.enabled /\ ~LastOk(h1) THEN [res |-> "HwError", hw |-> h1]
        ELSE LET h2 == BackendGet(h1)
             IN  IF ~LastOk(h2) THEN [res |-> "HwError", hw |-> h2]
                 ELSE LET r == ResolveIndex(h2, address)
                      IN  IF r.res # "Ok" THEN [res |-> r.res, hw |-> r.hw]
                          ELSE LET h3 == BackendSet(r.hw, r.idx[1], address)
                               IN  IF ~LastOk(h3) THEN [res |-> "HwError", hw |-> h3]
                                   ELSE [res |-> "Ok", hw |-> h3]

\* Core::clear_hw_breakpoint(address) (lines 466-489).
\* Variant: an address in no slot is a silent no-op.
CoreClearSilent(hw, address) ==
    LET h1 == BackendGet(hw)
    IN  IF ~LastOk(h1) THEN [res |-> "HwError", hw |-> h1]
        ELSE LET bp_position == Position(h1.slots, address)
             IN  IF bp_position = None THEN [res |-> "Ok", hw |-> h1]
                 ELSE LET h2 == BackendClear(h1, bp_position[1])
                      IN  IF ~LastOk(h2) THEN [res |-> "HwError", hw |-> h2]
                          ELSE [res |-> "Ok", hw |-> h2]
\* Variant: the position is that of the first occupied slot, whatever it holds.
CoreClearFirstOccupied(hw, address) ==
    LET h1 == BackendGet(hw)
    IN  IF ~LastOk(h1) THEN [res |-> "HwError", hw |-> h1]
        ELSE LET occ == {i \in DOMAIN h1.slots : h1.slots[i] # None}
             IN  IF occ = {} THEN [res |-> "NotFound", hw |-> h1]
                 ELSE LET h2 == BackendClear(h1, CHOOSE i \in occ : \A j \in occ : i <= j)
                      IN  IF ~LastOk(h2) THEN [res |-> "HwError", hw |-> h2]
                          ELSE [res |-> "Ok", hw |-> h2]
CoreClearHwBreakpoint(hw, address) ==
    LET h1 == BackendGet(hw)
    IN  IF ~LastOk(h1) THEN [res |-> "HwError", hw |-> h1]
        ELSE LET bp_position == Position(h1.slots, address)
             IN  IF bp_position = None THEN [res |-> "NotFound", hw |-> h1]
                 ELSE LET h2 == BackendClear(h1, bp_position[1])
                      IN  IF ~LastOk(h2) THEN [res |-> "HwError", hw |-> h2]
                          ELSE [res |-> "Ok", hw |-> h2]

\* (..).into_iter().flatten(): the addresses of the occupied slots, in index
\* order, from slot i on.
RECURSIVE Flatten(_, _)
Flatten(sl, i) ==
    IF i \notin DOMAIN sl THEN <<>>
    ELSE sl[i] \o Flatten(sl, i + 1)

\* The for loop of clear_all_hw_breakpoints over the snapshot (lines 498-500).
\* Variant: a failing clear is skipped and the loop goes on.
RECURSIVE ClearEachKeepGoing(_, _)
ClearEachKeepGoing(hw, todo) ==
    IF todo = <<>> THEN [res |-> "Ok", hw |-> hw]
    ELSE LET r == CoreClearHwBreakpoint(hw, Head(todo))
         IN  ClearEachKeepGoing(r.hw, Tail(todo))
RECURSIVE ClearEach(_, _)
ClearEach(hw, todo) ==
    IF todo = <<>> THEN [res |-> "Ok", hw |-> hw]
    ELSE LET r == CoreClearHwBreakpoint(hw, Head(todo))
         IN  IF r.res # "Ok" THEN r
             ELSE ClearEach(r.hw, Tail(todo))

\* Core::clear_all_hw_breakpoints() (lines 496-502).
\* Variant: each distinct address of the snapshot is cleared once.
RECURSIVE Distinct(_)
Distinct(q) ==
    IF q = <<>> THEN <<>>
    ELSE IF \E k \in 2..Len(q) : q[k] = Head(q)
         THEN Distinct(Tail(q))
         ELSE <<Head(q)>> \o Distinct(Tail(q))
ClearAllDistinct(hw) ==
    LET h1 == BackendGet(hw)
    IN  IF ~LastOk(h1) THEN [res |-> "HwError", hw |-> h1]
        ELSE ClearEach(h1, Distinct(Flatten(h1.slots, 0)))
CoreClearAllHwBreakpoints(hw) ==
    LET h1 == BackendGet(hw)
    IN  IF ~LastOk(h1) THEN [res |-> "HwError", hw |-> h1]
        ELSE ClearEach(h1, Flatten(h1.slots, 0))

\* Most fallible back-end calls one facade call can issue: clear_all issues
\* one get_hw_breakpoints and then a get and a clear per occupied slot.
MaxCalls == 2 * NumUnits + 1

Entry(fault) == [slots |-> slots, enabled |-> enabled, log |-> <<>>, fault |-> fault]

\* The facade call returns: the back-end keeps its state, the call is recorded.
\* A fault ordinal beyond the calls actually issued is the fault-free call.
Return(op, address, r) ==
    /\ r.hw.fault <= Len(r.hw.log)
    /\ slots' = r.hw.slots
    /\ enabled' = r.hw.enabled
    /\ last' = [op |-> op, address |-> address, res |-> r.res, log |-> r.hw.log,
                pre |-> slots, preEnabled |-> enabled]

SetHwBreakpoint(address, fault) ==
    /\ Return("set", address, CoreSetHwBreakpoint(Entry(fault), address))
    /\ UNCHANGED <<prior, packet, encodeVars, writerVars, dispatchVars>>

ClearHwBreakpoint(address, fault) ==
    /\ Return("clear", address, CoreClearHwBreakpoint(Entry(fault), address))
    /\ UNCHANGED <<prior, packet, encodeVars, writerVars, dispatchVars>>

ClearAllHwBreakpoints(fault) ==
    /\ Return("clear_all", 0, CoreClearAllHwBreakpoints(Entry(fault)))
    /\ UNCHANGED <<prior, packet, encodeVars, writerVars, dispatchVars>>

CoreRest ==
    /\ last = [op |-> "idle"]
    /\ prior = [op |-> "idle"]
    /\ packet = [kind |-> "Packet", data |-> <<>>, checksum |-> <<48, 48>>]
    /\ EncodeIdle
    /\ WriterIdle
    /\ DispatchIdle

\* A session on a core whose comparators are all free: any sequence of calls.
InitCore ==
    /\ slots = [i \in UnitIdx |-> None]
    /\ enabled \in BOOLEAN
    /\ CoreRest

NextCore ==
    \/ \E address \in Addrs, fault \in 0..MaxCalls : SetHwBreakpoint(address, fault)
    \/ \E address \in Addrs, fault \in 0..MaxCalls : ClearHwBreakpoint(address, fault)
    \/ \E fault \in 0..MaxCalls : ClearAllHwBreakpoints(fault)

SpecCore == InitCore /\ [][NextCore]_vars

\* One facade call on a core found in any comparator state: slots set by an
\* earlier session or another tool are reported too, so the same address may
\* sit in several slots.
InitCoreAny ==
    /\ slots \in [UnitIdx -> OptAddrs]
    /\ enabled \in BOOLEAN
    /\ CoreRest

NextCoreAny ==
    \/ \E address \in Addrs, fault \in 0..MaxCalls :
           last.op = "idle" /\ SetHwBreakpoint(address, fault)
    \/ \E address \in Addrs, fault \in 0..MaxCalls :
           last.op = "idle" /\ ClearHwBreakpoint(address, fault)
    \/ \E fault \in 0..MaxCalls :
           last.op = "idle" /\ ClearAllHwBreakpoints(fault)

SpecCoreAny == InitCoreAny /\ [][NextCoreAny]_vars

\* clear_hw_breakpoint called right after another facade call, whose record
\* is kept.
ClearHwBreakpointNext(address, fault) ==
    /\ Return("clear", address, CoreClearHwBreakpoint(Entry(fault), address))
    /\ prior' = last
    /\ UNCHANGED <<packet, encodeVars, writerVars, dispatchVars>>

\* Two facade calls in a row on a core found in any comparator state: a
\* set_hw_breakpoint and then a clear_hw_breakpoint.
InitCorePair ==
    /\ slots \in [UnitIdx -> OptAddrs]
    /\ enabled \in BOOLEAN
    /\ CoreRest

NextCorePair ==
    \/ \E address \in Addrs, fault \in 0..MaxCalls :
           last.op = "idle" /\ SetHwBreakpoint(address, fault)
    \/ \E address \in Addrs, fault \in 0..MaxCalls :
           last.op = "set" /\ prior.op = "idle" /\ ClearHwBreakpointNext(address, fault)

SpecCorePair == InitCorePair /\ [][NextCorePair]_vars

-----------------------------------------------------------------------------
(* SpecificCoreState: construction from the declared core type, and the    *)
(* two attach paths.                                                       *)

MaxCoreId == 3       \* largest CoreState id

\* probe_rs_target::CoreType
CoreTypes == {"Armv6m", "Armv7m", "Armv7em", "Armv8m", "Riscv"}

\* crate::config::DebugSequence: the family of the target's debug sequence.
DebugSequences == {"Arm", "Riscv"}

\* SpecificCoreState::from_core_type(typ) (lines 249-257): the variant built.
FromCoreType(typ) ==
    CASE typ = "Armv6m"  -> "Armv6m"
      [] typ = "Armv7m"  -> "Armv7m"
      [] typ = "Armv7em" -> "Armv7m"
      [] typ = "Armv8m"  -> "Armv8m"
      [] typ = "Riscv"   -> "Riscv"

\* SpecificCoreState::core_type(&self) (lines 259-267).
CoreTypeOf(variant) ==
    CASE variant = "Armv6m"  -> "Armv6m"
      [] variant = "Armv7m"  -> "Armv7m"
      [] variant = "Armv7em" -> "Armv7em"
      [] variant = "Armv8m"  -> "Armv8m"
      [] variant = "Riscv"   -> "Riscv"

Mismatch == "Core architecture and Probe mismatch."

\* The match on self of attach_arm (lines 284-302): the back-end whose
\* constructor is called, or None for the `_` arm.
ArmBackend(variant) ==
    CASE variant = "Armv6m" -> Some("Armv6m")
      [] variant \in {"Armv7m", "Armv7em"} -> Some("Armv7m")
      [] variant = "Armv8m" -> Some("Armv8m")
      [] OTHER -> None

\* SpecificCoreState::attach_arm (lines 269-303).  newOk: whether the
\* back-end constructor (Armv6m::new, Armv7m::new, Armv8m::new) returns Ok.
\* built is the back-end whose constructor ran, core the Core returned.
AttachArm(variant, id, debug_sequence, newOk) ==
    IF debug_sequence = "Riscv"
    THEN [res |-> Mismatch, built |-> None, core |-> None]
    ELSE IF ArmBackend(variant) = None
         THEN [res |-> Mismatch, built |-> None, core |-> None]
         ELSE IF ~newOk
              THEN [res |-> "BackendError", built |-> ArmBackend(variant), core |-> None]
              ELSE [res |-> "Ok", built |-> ArmBackend(variant),
                    core |-> Some([inner |-> ArmBackend(variant)[1], id |-> id])]

\* SpecificCoreState::attach_riscv (lines 305-320).
\* Variant: the variant of self is not looked at.
AttachRiscvAnyVariant(variant, id) ==
    [res |-> "Ok", built |-> Some("Riscv32"),
     core |-> Some([inner |-> "Riscv32", id |-> id])]
AttachRiscv(variant, id) ==
    IF variant = "Riscv"
    THEN [res |-> "Ok", built |-> Some("Riscv32"),
          core |-> Some([inner |-> "Riscv32", id |-> id])]
    ELSE [res |-> Mismatch, built |-> None, core |-> None]

InitDispatch ==
    /\ ctype \in CoreTypes
    /\ coreId \in 0..MaxCoreId
    /\ specific = "none"
    /\ attached = [path |-> "none"]
    /\ slots = <<>> /\ enabled = FALSE /\ last = [op |-> "idle"]
    /\ prior = [op |-> "idle"]
    /\ packet = [kind |-> "Packet", data |-> <<>>, checksum |-> <<48, 48>>]
    /\ EncodeIdle
    /\ WriterIdle

\* The core list is instantiated: from_core_type(ctype).
BuildSpecific ==
    /\ specific = "none"
    /\ specific' = FromCoreType(ctype)
    /\ UNCHANGED <<ctype, coreId, attached, packet, encodeVars, writerVars, coreVars>>

CallAttachArm(debug_sequence, newOk) ==
    /\ specific # "none"
    /\ attached' = [path |-> "arm", seq |-> debug_sequence, variant |-> specific,
                    out |-> AttachArm(specific, coreId, debug_sequence, newOk)]
    /\ UNCHANGED <<ctype, coreId, specific, packet, encodeVars, writerVars, coreVars>>

CallAttachRiscv ==
    /\ specific # "none"
    /\ attached' = [path |-> "riscv", seq |-> "Riscv", variant |-> specific,
                    out |-> AttachRiscv(specific, coreId)]
    /\ UNCHANGED <<ctype, coreId, specific, packet, encodeVars, writerVars, coreVars>>

NextDispatch ==
    \/ BuildSpecific
    \/ \E ds \in DebugSequences, newOk \in BOOLEAN : CallAttachArm(ds, newOk)
    \/ CallAttachRiscv

SpecDispatch == InitDispatch /\ [][NextDispatch]_vars

-----------------------------------------------------------------------------
(* Properties of the codec.                                                *)

Escapable == {HASH, DOLLAR, RBRACE, STAR}

\* The kind's header byte as the wire protocol defines it.
HeaderByte(kind) == IF kind = "Packet" THEN DOLLAR ELSE PERCENT

\* The bytes of `out` between the marker byte and the terminating '#'.
EmittedPayload(out, p) == SubSeq(out, 2, Len(out) - Len(p.checksum) - 1)

\* The receiver's side of the escape transform: x XOR 0x20 on a byte.
FlipBit5(x) == IF x \in 32..63 \cup 96..127 \cup 160..191 \cup 224..255
               THEN x - 32 ELSE x + 32

\* Reverse the escape transform: each '}' followed by x becomes x XOR 0x20.
RECURSIVE Unescape(_)
Unescape(s) ==
    IF s = <<>> THEN <<>>
    ELSE IF s[1] = RBRACE /\ Len(s) >= 2
         THEN <<FlipBit5(s[2])>> \o Unescape(SubSeq(s, 3, Len(s)))
         ELSE <<s[1]>> \o Unescape(Tail(s))

\* C4: for every payload, un-escaping the bytes encode emitted between the
\* marker and the terminating '#' gives back the payload exactly.
C4_RoundTrip ==
    epc = "done" => Unescape(EmittedPayload(w, packet)) = packet.data

\* C4 witness: encode has run on a payload holding all four escapable bytes.
C4_Witness ==
    /\ epc = "done"
    /\ packet.data = <<RBRACE, STAR, HASH, DOLLAR>>
    /\ Len(EmittedPayload(w, packet)) = 8

\* C5: a payload with no escapable byte (the empty one included) is emitted as
\* marker + payload + '#' + checksum, and no '}' is inserted.
C5_PlainPayload ==
    (epc = "done" /\ \A i \in 1..Len(packet.data) : packet.data[i] \notin Escapable)
        => /\ w = <<HeaderByte(packet.kind)>> \o packet.data \o <<HASH>> \o packet.checksum
           /\ \A i \in 1..Len(w) : w[i] # RBRACE

\* C5 witness: encode has run on a non-empty payload without escapable bytes.
C5_Witness ==
    /\ epc = "done"
    /\ packet.data = <<97, 93, 97>>
    /\ Len(w) = 7

\* C6: the first byte is '%' for a Notification and '$' for a Packet, and the
\* output ends with '#' followed by the packet's checksum bytes unchanged.
C6_MarkerAndTrailer ==
    epc = "done" =>
        /\ Len(w) >= 2 + Len(packet.checksum)
        /\ (packet.kind = "Notification" => w[1] = PERCENT)
        /\ (packet.kind = "Packet" => w[1] = DOLLAR)
        /\ SubSeq(w, Len(w) - Len(packet.checksum), Len(w)) = <<HASH>> \o packet.checksum

\* C6 witness: a Notification whose payload ends in an escaped byte was encoded.
C6_Witness ==
    /\ epc = "done"
    /\ packet.kind = "Notification"
    /\ packet.data = <<97, HASH>>
    /\ w[1] = PERCENT

-----------------------------------------------------------------------------
(* Properties of writer's ack wait.                                        *)

\* hist with the consumed positions deleted.
RECURSIVE Surviving(_, _, _)
Surviving(h, c, j) ==
    IF j > Len(h) THEN <<>>
    ELSE (IF j \in c THEN <<>> ELSE <<h[j]>>) \o Surviving(h, c, j + 1)

\* C1: in one call of writer the frame is written 1 + k times, k the number of
\* '-' bytes consumed before the '+', and every send is the same frame.
C1_ResendPerNack ==
    wpc = "reader" =>
        /\ Len(sends) = 1 + nacks
        /\ \A i \in 1..Len(sends) : sends[i] = sends[1]

C3_BufferPreserved ==
    /\ buffer = Surviving(hist, consumed, 1)
    /\ \A j \in consumed : hist[j] \in {PLUS, MINUS}
    /\ Cardinality(consumed) = nacks + acks
    /\ Len(buffer) = Len(hist) - (nacks + acks)

\* C3 witness: at the handoff to the reader a '-' and a '+' were consumed from
\* behind a '$', and the '$' and a later '-' are still in the buffer.
C3_Witness ==
    /\ wpc = "reader"
    /\ hist = <<DOLLAR, MINUS, DOLLAR, PLUS, MINUS>>
    /\ consumed = {2, 4}
    /\ buffer = <<DOLLAR, DOLLAR, MINUS>>

-----------------------------------------------------------------------------
(* Properties of the Core facade's breakpoint algorithm.                   *)

Holds(sl, address) == \E i \in DOMAIN sl : sl[i] = Some(address)

Occupied(sl) == Cardinality({i \in DOMAIN sl : sl[i] # None})

Full(sl) == \A i \in DOMAIN sl : sl[i] # None

\* No back-end call of the last facade call failed.
NoFault == \A k \in 1..Len(last.log) : last.log[k][3]

\* The slot writes (set or clear) the last facade call issued to the back-end.
SlotWrites ==
    SelectSeq(last.log, LAMBDA c : c[1] \in {"set_hw_breakpoint", "clear_hw_breakpoint"})

LowestHolding(sl, address) ==
    CHOOSE i \in DOMAIN sl :
        /\ sl[i] = Some(address)
        /\ \A j \in DOMAIN sl : sl[j] = Some(address) => i <= j

\* C7: set_hw_breakpoint(address) with address already in slot i writes slot i
\* again with the same address and touches no other slot: the slot vector, and
\* so the count of occupied slots, is as before, free lower slots or not.
C7_SetIsIdempotent ==
    (last.op = "set" /\ Holds(last.pre, last.address)) =>
        /\ slots = last.pre
        /\ Occupied(slots) = Occupied(last.pre)
        /\ \A k \in 1..Len(SlotWrites) :
               /\ SlotWrites[k][1] = "set_hw_breakpoint"
               /\ SlotWrites[k][2] = <<LowestHolding(last.pre, last.address), last.address>>
        /\ NoFault => (last.res = "Ok" /\ Len(SlotWrites) = 1)

\* C7 witness: address 2 sat in slot 2 with slots 0 and 1 free, the set
\* succeeded and wrote slot 2.
C7_Witness ==
    /\ last.op = "set"
    /\ last.res = "Ok"
    /\ last.address = 2
    /\ last.pre[0] = None /\ last.pre[1] = None /\ last.pre[2] = Some(2)
    /\ SlotWrites = << <<"set_hw_breakpoint", <<2, 2>>, TRUE>> >>

\* C8: while a slot is free, setting an address not yet present succeeds and
\* occupies one more slot, so from an all-free core NumUnits sets of distinct
\* addresses succeed; with every slot taken, setting an address not present
\* fails with "No available hardware breakpoints", writes no slot and leaves
\* the slots as they were.
C8_ExhaustionAfterN ==
    (last.op = "set" /\ ~Holds(last.pre, last.address)) =>
        /\ (~Full(last.pre) /\ NoFault) =>
               /\ last.res = "Ok"
               /\ Occupied(slots) = Occupied(last.pre) + 1
               /\ Holds(slots, last.address)
        /\ Full(last.pre) =>
               /\ last.res \in {"NoAvailable", "HwError"}
               /\ NoFault => last.res = "NoAvailable"
               /\ SlotWrites = <<>>
               /\ slots = last.pre

\* C8 witness: every slot holds one of NumUnits distinct addresses, set one by
\* one on the all-free core, and a set of one more address was refused.
C8_Witness ==
    /\ last.op = "set"
    /\ last.res = "NoAvailable"
    /\ Full(slots)
    /\ Cardinality({slots[i] : i \in UnitIdx}) = NumUnits
    /\ ~Holds(slots, last.address)

\* C9: clear_hw_breakpoint(address) with address in no slot fails with "No
\* breakpoint found at address", issues no hardware clear and changes no slot.
C9_ClearNotFound ==
    (last.op = "clear" /\ ~Holds(last.pre, last.address)) =>
        /\ last.res \in {"NotFound", "HwError"}
        /\ NoFault => last.res = "NotFound"
        /\ SlotWrites = <<>>
        /\ slots = last.pre

\* C9 witness: a clear of an absent address on a core with two other
\* breakpoints was refused.
C9_Witness ==
    /\ last.op = "clear"
    /\ last.res = "NotFound"
    /\ last.address = 3
    /\ Occupied(last.pre) = 2
    /\ slots = last.pre

\* C10: from any slot state a successful clear_all_hw_breakpoints leaves every
\* slot None; on a core with no occupied slot it succeeds (no back-end fault)
\* and issues no hardware clear.
C10_ClearAllClears ==
    last.op = "clear_all" =>
        /\ last.res = "Ok" => \A i \in UnitIdx : slots[i] = None
        /\ Occupied(last.pre) = 0 =>
               /\ SlotWrites = <<>>
               /\ slots = last.pre
               /\ NoFault => last.res = "Ok"
        /\ NoFault => last.res = "Ok"

\* C10 witness: slots 0 and 2 held the same address, the breakpoint unit was
\* disabled, and clear_all succeeded with two hardware clears.
C10_Witness ==
    /\ last.op = "clear_all"
    /\ last.res = "Ok"
    /\ last.pre[0] = Some(1) /\ last.pre[1] = None /\ last.pre[2] = Some(1)
    /\ ~last.preEnabled
    /\ Len(SlotWrites) = 2
    /\ \A i \in UnitIdx : slots[i] = None

-----------------------------------------------------------------------------
(* Properties of SpecificCoreState.                                        *)

ArmVariants == {"Armv6m", "Armv7m", "Armv7em", "Armv8m"}

\* C11: for every declared core type t, core_type() of from_core_type(t) is t;
\* Armv7m and Armv7em stay distinct tags.
C11_CoreTypeRoundTrip ==
    specific # "none" => CoreTypeOf(specific) = ctype

\* C12: attach_arm on a Riscv state or with a Riscv debug sequence, and
\* attach_riscv on an Arm state, return the mismatch error and construct
\* neither a back-end nor a Core; a back-end is constructed only when the
\* state variant and the attach path / debug sequence are of the same family.
C12_MismatchOnFamily ==
    attached.path # "none" =>
        LET armCall   == attached.path = "arm"
            sameFamily ==
                \/ armCall /\ attached.seq = "Arm" /\ attached.variant \in ArmVariants
                \/ ~armCall /\ attached.variant = "Riscv"
        IN  /\ ~sameFamily =>
                /\ attached.out.res = Mismatch
                /\ attached.out.built = None
                /\ attached.out.core = None
            /\ attached.out.built # None => sameFamily
            /\ sameFamily => attached.out.built # None
            /\ attached.out.core # None =>
                /\ attached.out.res = "Ok"
                /\ attached.out.core[1].id = coreId

\* C12 witness: attach_riscv was called on an Armv8m state and refused.
C12_Witness ==
    /\ attached.path = "riscv"
    /\ attached.variant = "Armv8m"
    /\ attached.out.res = Mismatch
    /\ attached.out.built = None

-----------------------------------------------------------------------------
(* Progress and order of the ack wait.                                     *)

\* wpc = "ack" is writer suspended in stream.read (line 23): it resumes only
\* when the peer delivers bytes, closes the stream, or the read fails.

\* C13: once the bytes received include a '+', the ack wait ends without any
\* further byte from the peer.  Stated on the states in which writer waits for
\* the peer: after a read of this call, it never waits with a '+' in the buffer.
C13_PlusNeverLeftWaiting ==
    (wpc = "ack" /\ lastN >= 0) => Count(buffer, PLUS) = 0

\* The 1-based positions of the markers in a buffer.
MarkerPos(buf) == {i \in 1..Len(buf) : buf[i] \in {PLUS, MINUS}}

-----------------------------------------------------------------------------
(* Escaping of every occurrence.                                           *)

\* Number of escapable bytes among the first k bytes of a payload.
EscBefore(data, k) == Cardinality({j \in 1..k : data[j] \in Escapable})

\* C15: every occurrence of '#', '$', '}', '*' is escaped: the emitted payload
\* holds no raw '#', '$' or '*', each payload byte sits at its own offset, as
\* itself or as '}' followed by the byte XOR 0x20, every '}' emitted is such an
\* introducer, and the emitted length is len(payload) + number of escapables.
C15_EveryOccurrenceEscaped ==
    epc = "done" =>
        LET data == packet.data
            ep   == EmittedPayload(w, packet)
            off(k) == k + EscBefore(data, k - 1)
        IN  /\ Len(ep) = Len(data) + EscBefore(data, Len(data))
            /\ \A i \in 1..Len(ep) : ep[i] \notin {HASH, DOLLAR, STAR}
            /\ \A k \in 1..Len(data) :
                   IF data[k] \in Escapable
                   THEN ep[off(k)] = RBRACE /\ ep[off(k) + 1] = FlipBit5(data[k])
                   ELSE ep[off(k)] = data[k]
            /\ \A i \in 1..Len(ep) :
                   ep[i] = RBRACE =>
                       \E k \in 1..Len(data) : data[k] \in Escapable /\ off(k) = i

\* C15 witness: a payload with three '*' and a '}' was encoded into 8 bytes.
C15_Witness ==
    /\ epc = "done"
    /\ packet.data = <<STAR, STAR, RBRACE, STAR>>
    /\ EmittedPayload(w, packet) = <<RBRACE, 10, RBRACE, 10, RBRACE, 93, RBRACE, 10>>

-----------------------------------------------------------------------------
(* Slot choice, lazy enable, frame of clear, and back-end failures.        *)

LowestFree(sl) ==
    CHOOSE i \in DOMAIN sl : sl[i] = None /\ \A j \in DOMAIN sl : sl[j] = None => i <= j

\* C16: set_hw_breakpoint(address) with address in no slot and a slot free
\* writes address into the lowest-index None slot and changes no other slot.
C16_LowestFreeSlot ==
    (last.op = "set" /\ ~Holds(last.pre, last.address) /\ ~Full(last.pre)) =>
        LET target == [last.pre EXCEPT ![LowestFree(last.pre)] = Some(last.address)]
        IN  /\ slots \in {last.pre, target}
            /\ NoFault => (last.res = "Ok" /\ slots = target)
            /\ \A k \in 1..Len(SlotWrites) :
                   SlotWrites[k][2] = <<LowestFree(last.pre), last.address>>

\* C16 witness: slots 0 and 2 were taken, slot 1 free, and a new address was
\* written into slot 1.
C16_Witness ==
    /\ last.op = "set"
    /\ last.res = "Ok"
    /\ last.pre[0] = Some(1) /\ last.pre[1] = None /\ last.pre[2] = Some(2)
    /\ last.address = 3
    /\ slots[1] = Some(3)

\* The ordinals of the enable_breakpoints calls of the last facade call.
EnableCalls == {k \in 1..Len(last.log) : last.log[k][1] = "enable_breakpoints"}

\* C17: set_hw_breakpoint calls enable_breakpoints(true) exactly when the unit
\* is disabled at entry, as its first back-end call; the unit is enabled after
\* every successful set, and also after a set refused for exhaustion.
C17_LazyEnableFirst ==
    last.op = "set" =>
        /\ ~last.preEnabled =>
               /\ EnableCalls = {1}
               /\ last.log[1][2] = TRUE
               /\ last.log[1][3] => enabled
        /\ last.preEnabled => (EnableCalls = {} /\ enabled)
        /\ last.res = "Ok" => enabled
        /\ last.res = "NoAvailable" => enabled

\* C17 witness: on a full core with the unit disabled, a set of a new address
\* was refused for exhaustion and the unit is now enabled.
C17_Witness ==
    /\ last.op = "set"
    /\ last.res = "NoAvailable"
    /\ ~last.preEnabled
    /\ enabled
    /\ last.log[1] = <<"enable_breakpoints", TRUE, TRUE>>
    /\ slots = last.pre

\* C18: clear_hw_breakpoint(address) with address in one or more slots clears
\* the lowest-index slot holding it and nothing else: the other slots, those
\* holding the same address included, and the enabled flag are unchanged.
C18_ClearsLowestOnly ==
    (last.op = "clear" /\ Holds(last.pre, last.address)) =>
        LET target == [last.pre EXCEPT ![LowestHolding(last.pre, last.address)] = None]
        IN  /\ slots \in {last.pre, target}
            /\ NoFault => (last.res = "Ok" /\ slots = target /\ Len(SlotWrites) = 1)
            /\ enabled = last.preEnabled
            /\ EnableCalls = {}

\* C18 witness: address 2 sat in slots 1 and 2; the clear emptied slot 1 and
\* slot 2 still holds it.
C18_Witness ==
    /\ last.op = "clear"
    /\ last.res = "Ok"
    /\ last.address = 2
    /\ last.pre[0] = Some(1) /\ last.pre[1] = Some(2) /\ last.pre[2] = Some(2)
    /\ slots[0] = Some(1) /\ slots[1] = None /\ slots[2] = Some(2)

\* The slots as the successful slot writes of a log leave them, from sl.
RECURSIVE ApplyWrites(_, _)
ApplyWrites(sl, log) ==
    IF log = <<>> THEN sl
    ELSE LET c == Head(log)
         IN  IF c[1] = "set_hw_breakpoint" /\ c[3]
             THEN ApplyWrites([sl EXCEPT ![c[2][1]] = Some(c[2][2])], Tail(log))
             ELSE IF c[1] = "clear_hw_breakpoint" /\ c[3]
                  THEN ApplyWrites([sl EXCEPT ![c[2]] = None], Tail(log))
                  ELSE ApplyWrites(sl, Tail(log))

\* C20: when a back-end call fails inside set, clear or clear_all, the facade
\* returns that error and issues no further back-end call; the slots are as
\* the calls before the failure left them, so clear_all leaves the slots it
\* had not yet visited occupied.
C20_FailureStopsCall ==
    (last.op # "idle" /\ ~NoFault) =>
        /\ last.res = "HwError"
        /\ ~last.log[Len(last.log)][3]
        /\ \A k \in 1..(Len(last.log) - 1) : last.log[k][3]
        /\ slots = ApplyWrites(last.pre, last.log)
        /\ last.op = "clear_all" =>
               /\ Occupied(slots) =
                      Occupied(last.pre) - Len(SelectSeq(SlotWrites, LAMBDA c : c[3]))
               /\ \A i \in UnitIdx : slots[i] \in {None, last.pre[i]}

\* C20 witness: clear_all on three breakpoints cleared slot 0, failed on the
\* clear of slot 1, and slots 1 and 2 are still occupied.
C20_Witness ==
    /\ last.op = "clear_all"
    /\ last.res = "HwError"
    /\ Occupied(last.pre) = 3
    /\ SlotWrites = << <<"clear_hw_breakpoint", 0, TRUE>>,
                       <<"clear_hw_breakpoint", 1, FALSE>> >>
    /\ slots[0] = None /\ slots[1] = last.pre[1] /\ slots[2] = last.pre[2]

-----------------------------------------------------------------------------
(* I/O failures of writer.                                                 *)

\* C19: when the write, the flush or a read fails, writer returns the error at
\* once: the failing step leaves the buffer as it was, and afterwards there is
\* no further send or read, no retry and no handoff to the reader.
C19_IoErrorReturnsAtOnce ==
    /\ [](failed # "none" => wpc = "error")
    /\ [][(failed = "none" /\ failed' # "none") =>
             /\ buffer' = buffer
             /\ hist' = hist
             /\ lastN' = lastN
             /\ (failed' # "flush" => sends' = sends)]_vars
    /\ [][failed # "none" => UNCHANGED <<buffer, sends, lastN, hist, wpc, failed>>]_vars

\* C19 witness: a read failed after a nack had been consumed and a '$' had
\* been accumulated; writer has returned the error and the '$' is in the buffer.
C19_Witness ==
    /\ failed = "read"
    /\ wpc = "error"
    /\ nacks = 1
    /\ buffer = <<DOLLAR>>
    /\ Len(sends) = 1

-----------------------------------------------------------------------------
(* The slot vector over a whole session.                                   *)

\* C21: on a core whose slots were all free at the start, after any sequence
\* of set_hw_breakpoint, clear_hw_breakpoint and clear_all_hw_breakpoints
\* calls, whatever each call returned, no address occupies more than one slot
\* and the number of occupied slots never exceeds the number of slots
\* get_hw_breakpoints reports.
C21_NoAddressTwice ==
    /\ \A i, j \in DOMAIN slots :
           (i # j /\ slots[i] # None) => slots[i] # slots[j]
    /\ Occupied(slots) <= Cardinality(DOMAIN slots)

\* C21 witness: every slot was filled, each with its own address, and a clear
\* then freed slot 0 alone.
C21_Witness ==
    /\ last.op = "clear" /\ last.res = "Ok"
    /\ Full(last.pre)
    /\ slots[0] = None /\ slots[1] = Some(2) /\ slots[2] = Some(1)

-----------------------------------------------------------------------------
(* set_hw_breakpoint followed by clear_hw_breakpoint.                      *)

\* No back-end call of the facade call recorded in rec failed.
NoFaultIn(rec) == \A k \in 1..Len(rec.log) : rec.log[k][3]

\* C22: from every slot state in which the address is in no slot and at least
\* one slot is free, set_hw_breakpoint(address) followed by
\* clear_hw_breakpoint(address) both succeed and leave the slot vector
\* exactly as it was before the two calls (no back-end call failing).
C22_SetThenClearRestores ==
    ( /\ prior.op = "set" /\ last.op = "clear"
      /\ last.address = prior.address
      /\ ~Holds(prior.pre, prior.address)
      /\ ~Full(prior.pre)
      /\ NoFaultIn(prior) /\ NoFaultIn(last) )
    => ( /\ prior.res = "Ok"
         /\ last.res = "Ok"
         /\ last.pre # prior.pre
         /\ slots = prior.pre )

\* C22 witness: address 3 was set and cleared on a core that held address 1
\* in slots 0 and 2 with slot 1 free; the set went to slot 1, and the slot
\* vector is back to what it was.
C22_Witness ==
    /\ prior.op = "set" /\ prior.address = 3 /\ prior.res = "Ok"
    /\ last.op = "clear" /\ last.address = 3 /\ last.res = "Ok"
    /\ prior.pre = (0 :> Some(1) @@ 1 :> None @@ 2 :> Some(1))
    /\ last.pre[1] = Some(3)
    /\ slots = prior.pre

=============================================================================
